---- MODULE Spec2Model ----
(***************************************************************************)
(* Model of plc_dashboard.py: a bounded per-key history (DataBuffer), one  *)
(* connection manager per PLC (PLCManager), one polling thread per PLC     *)
(* (PLCReader) and the read-only query path (/data, /health).              *)
(***************************************************************************)
EXTENDS Integers, Sequences, FiniteSets, TLC

(* ------------------------------ bounds -------------------------------- *)
\* DataBuffer(maxlen=...) : capacity of every history (500 in the program)
MaxLen == 2
\* number of Tag entries configured per PLC (6 in the program)
NumTags == 2
\* the wall clock is observed in 0..MaxClock
MaxClock == 2

(* --------------------------- configuration ---------------------------- *)
Devices == {"plc_1500", "plc_et200sp"}
DeviceOrder == <<"plc_1500", "plc_et200sp">>
TagNames == <<"thermo_1", "thermo_2", "pid_kp", "pid_ki", "pid_kd", "pid_output", "tag_7">>
SupportedTypes == {"real", "int", "dint", "bool"}

\* one Tag of plc_config: name and data_type (address fields do not
\* influence control flow)
Tag(i) == [name |-> TagNames[i], data_type |-> "real"]
plc_config == [d \in Devices |-> [i \in 1..NumTags |-> Tag(i)]]

\* plc_config edited so that the first Tag of the first device has a
\* data_type that _parse_value does not know
BadTag(i) == [name |-> TagNames[i], data_type |-> "word"]
bad_config ==
  [d \in Devices |->
     [i \in 1..NumTags |-> IF d = DeviceOrder[1] /\ i = 1 THEN BadTag(i) ELSE Tag(i)]]

\* faulty variant: the key is the tag name alone
Key_nodevice(d, name) == <<"", name>>

\* key = f"{self.manager.name}.{name}"
Key(d, name) == <<d, name>>

AllKeys == {Key(d, TagNames[i]) : d \in Devices, i \in 1..NumTags}

\* last_error values; None is the empty tuple
None == <<>>
ConnectionError == <<"Connection error">>
UnknownIssue == <<"Unknown connection issue">>
ReadError(name) == <<"Read error for", name>>

\* blocks delivered by the PLC, named by the process value they encode
RawValues == {10}

\* direct callers of DataBuffer.append, the key each one writes, and the
\* values they pass
Callers == {"caller_1", "caller_2"}
CallerKey(c) ==
  IF c = "caller_1" THEN Key("plc_1500", TagNames[1]) ELSE Key("plc_et200sp", TagNames[1])
SampleValues == {10, 20}
\* a direct caller appends at most MaxLen + MaxExtra samples to its key
MaxExtra == 1
\* how far the number of appends to one key is counted ahead of the number
\* of appends to the key of the next tag
MaxLead == 1

\* key lists requested from /data: no key, two known keys, a known key twice
\* with a key that is never written
UnknownKey == Key("plc_1500", "no_such_signal")
KeyLists ==
  { <<>>,
    <<CallerKey("caller_1"), CallerKey("caller_2")>>,
    <<CallerKey("caller_2"), UnknownKey, CallerKey("caller_2")>> }

\* texts of the status line
Verbunden == <<"verbunden">>
NichtVerbunden == <<"nicht verbunden">>
Separator == " | "

(* ------------------------------- state -------------------------------- *)
VARIABLES
  data,        \* DataBuffer._data : created key -> sequence of <<timestamp, value>>
  lock,        \* DataBuffer._lock : "free" or the name of the holding thread
  tags,        \* PLCManager.tags  : per device, the configured Tag sequence
  connected,   \* PLCManager.connected
  last_error,  \* PLCManager.last_error
  alive,       \* what client.get_connected() reports
  pc,          \* position of each PLCReader thread
  idx,         \* loop index of the thread (tag being read / value being appended)
  values,      \* read_tags' local dict, in insertion order: seq of <<name, value>>
  start_time,  \* run()'s start_time
  stop_event,  \* PLCReader._stop_event
  hung,        \* the device does not answer: a network call to it never returns
  healthy,     \* from now on no connect and no db_read of the device fails
  now,         \* time.time()
  cyc,         \* per device, bookkeeping about the current cycle (history)
  qpc,         \* position of the request thread in data()
  selected,    \* data(): the requested keys, in order
  qi,          \* data(): index of the key being copied / the manager being rendered
  series,      \* data(): the dict built by snapshot, in insertion order
  status_parts,\* data(): the list of rendered device states
  seen,        \* (history) the requested histories when snapshot took the lock
  held,        \* (history) per device, the <<connected, last_error>> pairs the
               \* manager held and left since the /data call in progress
               \* began, until the call renders the device
  wpc,         \* position of each direct caller of DataBuffer.append
  warg,        \* arguments <<key, timestamp, value>> of that call
  wlog,        \* (history) per key, every sample appended by a direct caller
  lead,        \* (history) per device and tag position j, the number of
               \* samples ever appended to the key of tag j minus the number
               \* ever appended to the key of tag j+1, counted in -1..MaxLead
  plcs,        \* health(): the dict of connected flags, in insertion order
  status       \* data(): the joined status text of the response, as a
               \* sequence of pieces

storeVars == <<data, lock>>
mgrVars == <<tags, connected, last_error, alive>>
thrVars == <<pc, idx, values, start_time, stop_event, cyc>>
envVars == <<hung, healthy, now>>
reqVars == <<qpc, selected, qi, series, status_parts, seen, plcs, status>>
qVars == <<qpc, selected, qi, series, status_parts, seen, held, plcs, status>>
wVars == <<wpc, warg, wlog, lead>>

vars == <<data, lock, tags, connected, last_error, alive, pc, idx, values,
          start_time, stop_event, hung, healthy, now, cyc, qpc, selected, qi,
          series, status_parts, seen, held, wpc, warg, wlog, lead, plcs, status>>

\* bookkeeping of one cycle: connection attempts made, tag indices read (in
\* order), index of the tag whose read failed (0: none), keys appended (in
\* order), the connected flag when the cycle began, read_tags has returned,
\* the connection attempt of the cycle failed
FreshCycle(conn) ==
  [attempts |-> 0, reads |-> <<>>, failedAt |-> 0, appended |-> <<>>,
   connAtStart |-> conn, returned |-> FALSE, connFailed |-> FALSE]
NoCycle == FreshCycle(FALSE)

EmptyData == [k \in {} |-> <<>>]
NoArg == <<>>

\* the state after construction (module level and __init__ methods), for a
\* given configuration of tags (cfg) and a given reliability (h) and
\* reachability (u: the device answers no call) of the devices
InitCfg(cfg, h, u) ==
  /\ data = EmptyData
  /\ lock = "free"
  /\ tags = cfg
  /\ connected = [d \in Devices |-> FALSE]
  /\ last_error = [d \in Devices |-> None]
  /\ alive = [d \in Devices |-> FALSE]
  /\ pc = [d \in Devices |-> "idle"]
  /\ idx = [d \in Devices |-> 0]
  /\ values = [d \in Devices |-> <<>>]
  /\ start_time = [d \in Devices |-> 0]
  /\ stop_event = [d \in Devices |-> FALSE]
  /\ hung = u
  /\ healthy = h
  /\ now = 0
  /\ cyc = [d \in Devices |-> NoCycle]
  /\ qpc = "idle"
  /\ selected = <<>>
  /\ qi = 0
  /\ series = <<>>
  /\ status_parts = <<>>
  /\ seen = EmptyData
  /\ held = [d \in Devices |-> {}]
  /\ wpc = [c \in Callers |-> "idle"]
  /\ warg = [c \in Callers |-> NoArg]
  /\ wlog = [k \in AllKeys |-> <<>>]
  /\ lead = [d \in Devices |-> [j \in 1..(Len(cfg[d]) - 1) |-> 0]]
  /\ plcs = <<>>
  /\ status = <<>>

\* the tags of plc_config
InitEnv(h, u) == InitCfg(plc_config, h, u)

\* every device answers the calls made to it
InitWith(h) == InitEnv(h, [d \in Devices |-> FALSE])

\* no device is known to be reliable
Init == InitWith([d \in Devices |-> FALSE])

\* one device is unreliable, the other one answers every call from the start
InitOneFlaky == \E u \in Devices : InitWith([d \in Devices |-> d # u])

\* every device answers every call that returns
InitReliable == InitWith([d \in Devices |-> TRUE])

(* ----------------------------- DataBuffer ----------------------------- *)
\* faulty variant: a full deque drops the new element
DequeAppend_dropnew(q, x, maxlen) ==
  IF Len(q) >= maxlen THEN q ELSE Append(q, x)

\* collections.deque(maxlen=maxlen).append(x): a full deque drops its
\* leftmost element first; a deque of maxlen 0 stays empty
DequeAppend(q, x, maxlen) ==
  IF maxlen = 0 THEN <<>>
  ELSE IF Len(q) >= maxlen THEN Append(Tail(q), x)
  ELSE Append(q, x)

\* self._data[key].append((timestamp, value)) on the defaultdict: a missing
\* key is created with an empty deque first
BufferAppend(dat, key, timestamp, value) ==
  LET old == IF key \in DOMAIN dat THEN dat[key] ELSE <<>>
  IN  [k \in (DOMAIN dat) \cup {key} |->
         IF k = key THEN DequeAppend(old, <<timestamp, value>>, MaxLen) ELSE dat[k]]

\* faulty variant: get(key) without a default; list(None) raises TypeError
BufferGet_nodefault(dat, key) == IF key \in DOMAIN dat THEN dat[key] ELSE <<"TypeError">>

\* list(self._data.get(key, [])) : a copy of the history, empty for a
\* missing key, and no key is created
BufferGet(dat, key) == IF key \in DOMAIN dat THEN dat[key] ELSE <<>>

\* faulty variant: self._data[key], which makes the defaultdict create a
\* missing key
DataAfterGet_create(dat, key) ==
  [k \in (DOMAIN dat) \cup {key} |-> IF k \in DOMAIN dat THEN dat[k] ELSE <<>>]

\* self._data.get(key, []) leaves the dict as it is, also for a missing key
DataAfterGet(dat, key) == dat

(* ----------------------------- PLCManager ----------------------------- *)
\* _parse_value: the snap7 decoder of the tag's data_type applied to the
\* block (the process value it yields stands for the block), ValueError for
\* any other data_type
ParseValue(tag, raw) ==
  IF tag.data_type \in SupportedTypes
  THEN [ok |-> TRUE, value |-> raw]
  ELSE [ok |-> FALSE, value |-> 0]

\* values[tag.name] = v on a dict: an existing name keeps its position
DictSet(vals, name, v) ==
  IF \E j \in 1..Len(vals) : vals[j][1] = name
  THEN [j \in 1..Len(vals) |-> IF vals[j][1] = name THEN <<name, v>> ELSE vals[j]]
  ELSE Append(vals, <<name, v>>)

NumTagsOf(d) == Len(tags[d])

\* data() has been called and has not yet rendered the state of device d
Unrendered(d) ==
  \/ qpc \in {"snapshot", "copy"}
  \/ /\ qpc \in {"status", "status_error", "status_format"}
     /\ \E j \in qi..Len(DeviceOrder) : DeviceOrder[j] = d

\* the state of the manager of d
StateOf(d) == <<connected[d], last_error[d]>>

\* (history) the manager of d holds <<conn, err>> after the step
Holds(d, conn, err) ==
  held' = IF Unrendered(d) /\ <<conn, err>> # StateOf(d)
          THEN [held EXCEPT ![d] = @ \cup {StateOf(d)}]
          ELSE held

\* (history) data() appends the text of device m to status_parts
Rendered(m) == held' = [held EXCEPT ![m] = {}]

\* outcomes the client can deliver for connect() followed by get_connected(),
\* when the call returns
ConnectOutcomes(d) ==
  IF healthy[d] THEN {"connected"} ELSE {"connected", "not_connected", "exception"}
\* outcomes the client can deliver for db_read(), when the call returns
ReadOutcomes(d) ==
  IF healthy[d] THEN {"ok"} ELSE {"ok", "exception"}

\* read_tags returns `values`: run() goes on to iterate it
ReturnPc(vals) == IF Len(vals) = 0 THEN "sleep" ELSE "append"

\* the `for tag in self.tags` loop of read_tags is entered
EnterReadLoop(d, c) ==
  IF NumTagsOf(d) = 0
  THEN /\ pc' = [pc EXCEPT ![d] = ReturnPc(values[d])]
       /\ idx' = [idx EXCEPT ![d] = 1]
       /\ cyc' = [cyc EXCEPT ![d] = [c EXCEPT !.returned = TRUE]]
  ELSE /\ pc' = [pc EXCEPT ![d] = "db_read"]
       /\ idx' = [idx EXCEPT ![d] = 1]
       /\ cyc' = [cyc EXCEPT ![d] = [c EXCEPT !.reads = Append(c.reads, 1)]]

\* faulty variant: `while True`
LoopContinues_always(stop) == TRUE

\* `while not self._stop_event.is_set()`
LoopContinues(stop) == ~stop

\* run(): `while not self._stop_event.is_set()`, start_time = time.time(),
\* and the call of read_tags (values = {})
RunCheck(d) ==
  /\ pc[d] = "check"
  /\ IF ~LoopContinues(stop_event[d])
     THEN /\ pc' = [pc EXCEPT ![d] = "stopped"]
          /\ UNCHANGED <<start_time, values, cyc>>
     ELSE /\ pc' = [pc EXCEPT ![d] = "ensure"]
          /\ start_time' = [start_time EXCEPT ![d] = now]
          /\ values' = [values EXCEPT ![d] = <<>>]
          /\ cyc' = [cyc EXCEPT ![d] = FreshCycle(connected[d])]
  /\ UNCHANGED <<data, lock, tags, connected, last_error, alive, idx,
                 stop_event, hung, healthy, now, qVars, wVars>>

\* faulty variant: every call reconnects
NeedsConnect_always(conn, alv) == TRUE

\* `if not self.connected or not self.client.get_connected()`
NeedsConnect(conn, alv) == ~conn \/ ~alv

\* _ensure_connection up to the call of client.connect inside connect();
\* PLCManager._lock, taken there, is used by no other thread
EnsureConnection(d) ==
  /\ pc[d] = "ensure"
  /\ IF ~NeedsConnect(connected[d], alive[d])
     THEN /\ EnterReadLoop(d, cyc[d])
          /\ UNCHANGED connected
     ELSE /\ connected' = [connected EXCEPT ![d] = FALSE]
          /\ pc' = [pc EXCEPT ![d] = "connect"]
          /\ cyc' = [cyc EXCEPT ![d].attempts = @ + 1]
          /\ UNCHANGED idx
  /\ Holds(d, connected'[d], last_error[d])
  /\ UNCHANGED <<data, lock, tags, last_error, alive, values, start_time,
                 stop_event, hung, healthy, now, reqVars, wVars>>

\* faulty variant: connected is set whenever client.connect did not raise
ConnectedAfter_noraise(outcome) == outcome # "exception"

\* connect(): self.connected = self.client.get_connected(), and False in the
\* except branch
ConnectedAfter(outcome) == outcome = "connected"

\* faulty variant: a successful attempt leaves the old message in place
ErrorAfter_kept(outcome, prev) ==
  IF outcome = "connected" THEN prev
  ELSE IF outcome = "not_connected" THEN UnknownIssue
  ELSE ConnectionError

\* faulty variant: no message when get_connected() reports False
ErrorAfter_cleared(outcome, prev) ==
  IF outcome = "exception" THEN ConnectionError ELSE None

\* connect(): self.last_error after the attempt
ErrorAfter(outcome, prev) ==
  IF outcome = "connected" THEN None
  ELSE IF outcome = "not_connected" THEN UnknownIssue
  ELSE ConnectionError

\* faulty variant: the result of _ensure_connection is ignored
ReadsAfterEnsure_ignored(ok) == TRUE

\* read_tags: `if not self._ensure_connection(): return values`
ReadsAfterEnsure(ok) == ok

\* connect(): client.connect returns or raises; then `return self.connected`
\* of _ensure_connection and the branch on it in read_tags
ConnectReturn(d) ==
  /\ pc[d] = "connect"
  /\ ~hung[d]
  /\ \E outcome \in ConnectOutcomes(d) :
       /\ connected' = [connected EXCEPT ![d] = ConnectedAfter(outcome)]
       /\ last_error' = [last_error EXCEPT ![d] = ErrorAfter(outcome, last_error[d])]
       /\ alive' = [alive EXCEPT ![d] = (outcome = "connected")]
       /\ IF ReadsAfterEnsure(ConnectedAfter(outcome))
          THEN EnterReadLoop(d, [cyc[d] EXCEPT !.connFailed = (outcome # "connected")])
          ELSE /\ pc' = [pc EXCEPT ![d] = ReturnPc(values[d])]
               /\ idx' = [idx EXCEPT ![d] = 1]
               /\ cyc' = [cyc EXCEPT ![d] =
                    [@ EXCEPT !.returned = TRUE, !.connFailed = (outcome # "connected")]]
  /\ Holds(d, connected'[d], last_error'[d])
  /\ UNCHANGED <<data, lock, tags, values, start_time, stop_event, hung,
                 healthy, now, reqVars, wVars>>

\* faulty variant: `except ValueError`
CaughtInReadTags_narrow(kind) == kind \in {"ValueError"}

\* `except Exception` of read_tags: every exception class raised by db_read
\* (RuntimeError) or _parse_value (ValueError) derives from Exception
CaughtInReadTags(kind) == kind \in {"RuntimeError", "ValueError"}

\* faulty variant: `continue` in place of `break`
NextAfterError_continue(i, n) == i + 1

\* the except branch of read_tags ends with `break`: no later tag is visited
NextAfterError(i, n) == n + 1

\* the loop of read_tags goes on with tag j, or is over and read_tags returns
LoopTo(d, j, vals, c) ==
  IF j <= NumTagsOf(d)
  THEN /\ idx' = [idx EXCEPT ![d] = j]
       /\ cyc' = [cyc EXCEPT ![d] = [c EXCEPT !.reads = Append(c.reads, j)]]
       /\ UNCHANGED pc
  ELSE /\ idx' = [idx EXCEPT ![d] = 1]
       /\ pc' = [pc EXCEPT ![d] = ReturnPc(vals)]
       /\ cyc' = [cyc EXCEPT ![d] = [c EXCEPT !.returned = TRUE]]

\* one iteration of the loop of read_tags: db_read returns or raises,
\* _parse_value, the except branch, and the next iteration or the return
DbReadReturn(d) ==
  /\ pc[d] = "db_read"
  /\ ~hung[d]
  /\ \E outcome \in ReadOutcomes(d), raw \in RawValues :
       LET tag == tags[d][idx[d]]
           parsed == ParseValue(tag, raw)
       IN  IF outcome = "ok" /\ parsed.ok
           THEN LET vals == DictSet(values[d], tag.name, parsed.value)
                IN  /\ values' = [values EXCEPT ![d] = vals]
                    /\ UNCHANGED <<connected, last_error>>
                    /\ LoopTo(d, idx[d] + 1, vals, cyc[d])
           ELSE IF ~CaughtInReadTags(IF outcome = "ok" THEN "ValueError" ELSE "RuntimeError")
           THEN /\ pc' = [pc EXCEPT ![d] = "crashed"]
                /\ UNCHANGED <<connected, last_error, values, idx, cyc>>
           ELSE /\ last_error' = [last_error EXCEPT ![d] = ReadError(tag.name)]
                /\ connected' = [connected EXCEPT ![d] = FALSE]
                /\ UNCHANGED values
                /\ LoopTo(d, NextAfterError(idx[d], NumTagsOf(d)), values[d],
                          [cyc[d] EXCEPT !.failedAt =
                             IF @ = 0 THEN idx[d] ELSE @])
  /\ Holds(d, connected'[d], last_error'[d])
  /\ UNCHANGED <<data, lock, tags, alive, start_time, stop_event, hung,
                 healthy, now, reqVars, wVars>>

(* ------------------------------ PLCReader ----------------------------- *)
\* self.buffer.append(...) : `with self._lock` is entered
AppendAcquire(d) ==
  /\ pc[d] = "append"
  /\ lock = "free"
  /\ lock' = d
  /\ pc' = [pc EXCEPT ![d] = "append_locked"]
  /\ UNCHANGED <<data, tags, connected, last_error, alive, idx, values,
                 start_time, stop_event, hung, healthy, now, cyc, qVars, wVars>>

\* faulty variant: the lock is still held after append
LockAfterAppend_held(d) == d

\* leaving `with self._lock` releases the lock
LockAfterAppend(d) == "free"

\* one sample is appended to `key`: the key's count rises by one, so the lead
\* of its tag over the next tag rises and the lead of the previous tag over
\* it falls; a lead above MaxLead is counted as MaxLead, one below -1 as -1
LeadAfter(ld, key) ==
  [d \in Devices |->
     [j \in DOMAIN ld[d] |->
        IF Key(d, tags[d][j].name) = key
        THEN IF ld[d][j] < MaxLead THEN ld[d][j] + 1 ELSE MaxLead
        ELSE IF Key(d, tags[d][j + 1].name) = key
             THEN IF ld[d][j] > -1 THEN ld[d][j] - 1 ELSE -1
             ELSE ld[d][j]]]

\* faulty variant: the sample is stamped with the time of the append
SampleTime_now(start, current) == current

\* buffer.append(key, start_time, value): the timestamp of a sample is the
\* start_time of its cycle
SampleTime(start, current) == start

\* the deque append under the lock, the release, and the next item of
\* `for name, value in values.items()`
AppendRelease(d) ==
  /\ pc[d] = "append_locked"
  /\ LET item == values[d][idx[d]]
         key == Key(d, item[1])
     IN  /\ data' = BufferAppend(data, key, SampleTime(start_time[d], now), item[2])
         /\ cyc' = [cyc EXCEPT ![d].appended = Append(@, key)]
         /\ lead' = LeadAfter(lead, key)
  /\ lock' = LockAfterAppend(d)
  /\ IF idx[d] < Len(values[d])
     THEN /\ idx' = [idx EXCEPT ![d] = @ + 1]
          /\ pc' = [pc EXCEPT ![d] = "append"]
     ELSE /\ idx' = [idx EXCEPT ![d] = 1]
          /\ pc' = [pc EXCEPT ![d] = "sleep"]
  /\ UNCHANGED <<tags, connected, last_error, alive, values, start_time,
                 stop_event, hung, healthy, now, qVars, wpc, warg, wlog>>

\* time.sleep(self.interval) returns
Sleep(d) ==
  /\ pc[d] = "sleep"
  /\ pc' = [pc EXCEPT ![d] = "check"]
  /\ cyc' = [cyc EXCEPT ![d] = NoCycle]
  /\ UNCHANGED <<data, lock, tags, connected, last_error, alive, idx, values,
                 start_time, stop_event, hung, healthy, now, qVars, wVars>>

\* PLCReader.stop
Stop(d) ==
  /\ stop_event' = [stop_event EXCEPT ![d] = TRUE]
  /\ UNCHANGED <<data, lock, tags, connected, last_error, alive, pc, idx,
                 values, start_time, hung, healthy, now, cyc, qVars, wVars>>

\* stop_readers: stop() on every reader; the joins that follow wait at most
\* one second each and change nothing
StopReaders ==
  /\ stop_event' = [d \in Devices |-> TRUE]
  /\ UNCHANGED <<data, lock, tags, connected, last_error, alive, pc, idx,
                 values, start_time, hung, healthy, now, cyc, qVars, wVars>>

\* Thread.is_alive
IsAlive(p) == p \notin {"idle", "stopped", "crashed"}

RECURSIVE StartFrom_restart(_, _)
RECURSIVE StartFrom(_, _)
\* faulty variant: a thread that has ended is run again
StartFrom_restart(i, p) ==
  IF i > Len(DeviceOrder) THEN p
  ELSE LET d == DeviceOrder[i]
       IN  IF IsAlive(p[d]) THEN StartFrom_restart(i + 1, p)
           ELSE StartFrom_restart(i + 1, [p EXCEPT ![d] = "check"])

\* start_readers: readers are visited in order; start() of a thread that has
\* already run (and ended, by the stop signal or by an exception) raises
\* RuntimeError, which ends the loop
StartFrom(i, p) ==
  IF i > Len(DeviceOrder) THEN p
  ELSE LET d == DeviceOrder[i]
       IN  IF IsAlive(p[d]) THEN StartFrom(i + 1, p)
           ELSE IF p[d] = "idle" THEN StartFrom(i + 1, [p EXCEPT ![d] = "check"])
           ELSE p

StartReaders ==
  /\ pc' = StartFrom(1, pc)
  /\ UNCHANGED <<data, lock, tags, connected, last_error, alive, idx, values,
                 start_time, stop_event, hung, healthy, now, cyc, qVars, wVars>>

(* ------------------- direct callers of DataBuffer.append -------------- *)
\* append(key, timestamp, value) is called: the caller waits for the lock
CallAppend(c) ==
  /\ wpc[c] = "idle"
  /\ Len(wlog[CallerKey(c)]) < MaxLen + MaxExtra
  /\ \E v \in SampleValues :
       warg' = [warg EXCEPT ![c] = <<CallerKey(c), now, v>>]
  /\ wpc' = [wpc EXCEPT ![c] = "append"]
  /\ UNCHANGED <<storeVars, mgrVars, thrVars, envVars, qVars, wlog, lead>>

\* `with self._lock` is entered
CallAcquire(c) ==
  /\ wpc[c] = "append"
  /\ lock = "free"
  /\ lock' = c
  /\ wpc' = [wpc EXCEPT ![c] = "append_locked"]
  /\ UNCHANGED <<data, mgrVars, thrVars, envVars, qVars, warg, wlog, lead>>

\* the deque append under the lock, and the release
CallRelease(c) ==
  /\ wpc[c] = "append_locked"
  /\ data' = BufferAppend(data, warg[c][1], warg[c][2], warg[c][3])
  /\ wlog' = [wlog EXCEPT ![warg[c][1]] = Append(@, <<warg[c][2], warg[c][3]>>)]
  /\ lead' = LeadAfter(lead, warg[c][1])
  /\ lock' = LockAfterAppend(c)
  /\ wpc' = [wpc EXCEPT ![c] = "idle"]
  /\ warg' = [warg EXCEPT ![c] = NoArg]
  /\ UNCHANGED <<mgrVars, thrVars, envVars, qVars>>

(* --------------------------- request thread --------------------------- *)
RECURSIVE Join_trailing(_, _)
RECURSIVE Join(_, _)
\* faulty variant: the deque itself is returned
ListCopy_alias(key, hist) == [alias |-> TRUE, key |-> key, items |-> hist]

\* list(...) builds a new list: the result does not alias the deque
ListCopy(key, hist) == [alias |-> FALSE, key |-> key, items |-> hist]

\* what a reader of a returned sequence finds in it
View(entry) == IF entry.alias THEN BufferGet(data, entry.key) ELSE entry.items

\* data(): the request arrives with the key list `keys`; buffer.snapshot is
\* called
DataBegin(keys) ==
  /\ qpc = "idle"
  /\ selected' = keys
  /\ qpc' = "snapshot"
  /\ series' = <<>>
  /\ status_parts' = <<>>
  /\ plcs' = <<>>
  /\ status' = <<>>
  /\ held' = [d \in Devices |-> {}]
  /\ UNCHANGED <<storeVars, mgrVars, thrVars, envVars, wVars, qi, seen>>

\* snapshot: `with self._lock` is entered
SnapAcquire ==
  /\ qpc = "snapshot"
  /\ lock = "free"
  /\ lock' = "request"
  /\ qpc' = "copy"
  /\ qi' = 1
  /\ seen' = [k \in {selected[j] : j \in 1..Len(selected)} |-> BufferGet(data, k)]
  /\ UNCHANGED <<data, mgrVars, thrVars, envVars, wVars, selected, series,
                 status_parts, held, plcs, status>>

\* snapshot: one key of the dict comprehension
SnapCopy ==
  /\ qpc = "copy"
  /\ qi <= Len(selected)
  /\ series' = DictSet(series, selected[qi],
                       ListCopy(selected[qi], BufferGet(data, selected[qi])))
  /\ data' = DataAfterGet(data, selected[qi])
  /\ qi' = qi + 1
  /\ UNCHANGED <<lock, mgrVars, thrVars, envVars, wVars, qpc, selected,
                 status_parts, seen, held, plcs, status>>

\* snapshot returns, the lock is released, the status loop starts
SnapRelease ==
  /\ qpc = "copy"
  /\ qi > Len(selected)
  /\ lock' = "free"
  /\ qpc' = "status"
  /\ qi' = 1
  /\ UNCHANGED <<data, mgrVars, thrVars, envVars, wVars, selected, series,
                 status_parts, seen, held, plcs, status>>

\* the if / elif / else of data() applied to one state of a manager
StatusText(conn, err) ==
  IF conn THEN Verbunden ELSE IF err # None THEN err ELSE NichtVerbunden

\* data(): `if manager.connected`
StatusConnected ==
  /\ qpc = "status"
  /\ qi <= Len(DeviceOrder)
  /\ LET m == DeviceOrder[qi]
     IN  IF connected[m]
         THEN /\ status_parts' = Append(status_parts, <<m, Verbunden>>)
              /\ qi' = qi + 1
              /\ Rendered(m)
              /\ UNCHANGED qpc
         ELSE /\ qpc' = "status_error"
              /\ UNCHANGED <<status_parts, qi, held>>
  /\ UNCHANGED <<storeVars, mgrVars, thrVars, envVars, wVars, selected, series,
                 seen, plcs, status>>

\* data(): `elif manager.last_error`
StatusError ==
  /\ qpc = "status_error"
  /\ LET m == DeviceOrder[qi]
     IN  IF last_error[m] # None
         THEN /\ qpc' = "status_format"
              /\ UNCHANGED <<status_parts, qi, held>>
         ELSE /\ status_parts' = Append(status_parts, <<m, NichtVerbunden>>)
              /\ qi' = qi + 1
              /\ Rendered(m)
              /\ qpc' = "status"
  /\ UNCHANGED <<storeVars, mgrVars, thrVars, envVars, wVars, selected, series,
                 seen, plcs, status>>

\* data(): f"{manager.name}: {manager.last_error}" reads last_error again
StatusFormat ==
  /\ qpc = "status_format"
  /\ LET m == DeviceOrder[qi]
     IN  status_parts' = Append(status_parts,
           <<m, IF last_error[m] = None THEN <<"None">> ELSE last_error[m]>>)
  /\ qi' = qi + 1
  /\ qpc' = "status"
  /\ Rendered(DeviceOrder[qi])
  /\ UNCHANGED <<storeVars, mgrVars, thrVars, envVars, wVars, selected, series,
                 seen, plcs, status>>

\* faulty variant: the separator follows every part
Join_trailing(parts, sep) ==
  IF Len(parts) = 0 THEN <<>> ELSE <<parts[1], sep>> \o Join_trailing(Tail(parts), sep)

\* sep.join(parts): the parts with the separator between neighbours
Join(parts, sep) ==
  IF Len(parts) = 0 THEN <<>>
  ELSE IF Len(parts) = 1 THEN <<parts[1]>>
  ELSE <<parts[1], sep>> \o Join(Tail(parts), sep)

\* data() returns the response, with " | ".join(status_parts)
DataReturn ==
  /\ qpc = "status"
  /\ qi > Len(DeviceOrder)
  /\ qpc' = "done"
  /\ status' = Join(status_parts, Separator)
  /\ UNCHANGED <<storeVars, mgrVars, thrVars, envVars, wVars, selected, qi,
                 series, status_parts, seen, held, plcs>>

\* health(): the request arrives
HealthBegin ==
  /\ qpc = "idle"
  /\ qpc' = "health"
  /\ qi' = 1
  /\ selected' = <<>>
  /\ series' = <<>>
  /\ status_parts' = <<>>
  /\ plcs' = <<>>
  /\ status' = <<>>
  /\ UNCHANGED <<storeVars, mgrVars, thrVars, envVars, wVars, seen, held>>

\* health(): one item of {m.name: m.connected for m in managers}
HealthRead ==
  /\ qpc = "health"
  /\ qi <= Len(DeviceOrder)
  /\ plcs' = DictSet(plcs, DeviceOrder[qi], connected[DeviceOrder[qi]])
  /\ qi' = qi + 1
  /\ UNCHANGED <<storeVars, mgrVars, thrVars, envVars, wVars, qpc, selected,
                 series, status_parts, seen, held, status>>

\* health() returns the response
HealthReturn ==
  /\ qpc = "health"
  /\ qi > Len(DeviceOrder)
  /\ qpc' = "done"
  /\ UNCHANGED <<storeVars, mgrVars, thrVars, envVars, wVars, selected, qi,
                 series, status_parts, seen, held, plcs, status>>

\* the client is done with the response, which is discarded; the thread
\* serves the next request
RequestEnd ==
  /\ qpc = "done"
  /\ qpc' = "idle"
  /\ selected' = <<>>
  /\ qi' = 0
  /\ series' = <<>>
  /\ status_parts' = <<>>
  /\ plcs' = <<>>
  /\ status' = <<>>
  /\ seen' = EmptyData
  /\ held' = [d \in Devices |-> {}]
  /\ UNCHANGED <<storeVars, mgrVars, thrVars, envVars, wVars>>

(* ----------------------------- environment ---------------------------- *)
\* the wall clock advances
Tick ==
  /\ now < MaxClock
  /\ now' = now + 1
  /\ UNCHANGED <<data, lock, tags, connected, last_error, alive, pc, idx,
                 values, start_time, stop_event, hung, healthy, cyc, qVars, wVars>>

\* the session is lost: client.get_connected() reports False from now on
LinkDrop(d) ==
  /\ alive[d]
  /\ ~healthy[d]
  /\ alive' = [alive EXCEPT ![d] = FALSE]
  /\ UNCHANGED <<data, lock, tags, connected, last_error, pc, idx, values,
                 start_time, stop_event, hung, healthy, now, cyc, qVars, wVars>>

\* the network call in flight never returns
Hang(d) ==
  /\ pc[d] \in {"connect", "db_read"}
  /\ ~hung[d]
  /\ hung' = [hung EXCEPT ![d] = TRUE]
  /\ UNCHANGED <<data, lock, tags, connected, last_error, alive, pc, idx,
                 values, start_time, stop_event, healthy, now, cyc, qVars, wVars>>

\* from now on the device answers every connect and every read
Heal(d) ==
  /\ ~healthy[d]
  /\ ~hung[d]
  /\ healthy' = [healthy EXCEPT ![d] = TRUE]
  /\ UNCHANGED <<data, lock, tags, connected, last_error, alive, pc, idx,
                 values, start_time, stop_event, hung, now, cyc, qVars, wVars>>

(* --------------------------- specifications --------------------------- *)
ReaderStep(d) ==
  \/ RunCheck(d)
  \/ EnsureConnection(d)
  \/ ConnectReturn(d)
  \/ DbReadReturn(d)
  \/ AppendAcquire(d)
  \/ AppendRelease(d)
  \/ Sleep(d)

\* the polling threads with devices whose session may drop at any time
Next ==
  \/ \E d \in Devices : ReaderStep(d)
  \/ \E d \in Devices : LinkDrop(d)
  \/ StartReaders

Spec == Init /\ [][Next]_vars

\* the store on its own: direct callers append arbitrary samples while the
\* request thread serves /data
DataSteps ==
  \/ SnapAcquire
  \/ SnapCopy
  \/ SnapRelease
  \/ StatusConnected
  \/ StatusError
  \/ DataReturn
  \/ RequestEnd

NextStore ==
  \/ \E c \in Callers : CallAppend(c)
  \/ \E c \in Callers : CallAcquire(c)
  \/ \E c \in Callers : CallRelease(c)
  \/ \E keys \in KeyLists : DataBegin(keys)
  \/ DataSteps

SpecStore == Init /\ [][NextStore]_vars

\* fair scheduling: a thread that can take a step takes one, and a thread
\* waiting for the store lock gets it
Fairness ==
  \A d \in Devices :
    /\ WF_vars(RunCheck(d) \/ EnsureConnection(d) \/ ConnectReturn(d)
                 \/ DbReadReturn(d) \/ AppendRelease(d) \/ Sleep(d))
    /\ SF_vars(AppendAcquire(d))

RequestFairness ==
  /\ WF_vars(SnapCopy \/ SnapRelease \/ StatusConnected \/ StatusError
               \/ StatusFormat \/ DataReturn \/ HealthRead \/ HealthReturn)
  /\ SF_vars(SnapAcquire)

\* stop() and stop_readers() may be called at any time
NextStop ==
  \/ \E d \in Devices : ReaderStep(d)
  \/ \E d \in Devices : Stop(d)
  \/ StartReaders

\* (for the progress properties one device is unreliable and the other is not)
SpecStop == InitOneFlaky /\ [][NextStop]_vars /\ Fairness

\* the unreliable device becomes reliable for good at some point
NextRecover ==
  \/ \E d \in Devices : ReaderStep(d)
  \/ \E d \in Devices : LinkDrop(d)
  \/ \E d \in Devices : Heal(d)
  \/ StartReaders

SpecRecover == InitOneFlaky /\ [][NextRecover]_vars /\ Fairness

\* a network call of a device may never return, while /health and /data (for
\* one key) are served
NextHang ==
  \/ \E d \in Devices : ReaderStep(d)
  \/ \E d \in Devices : Hang(d)
  \/ StartReaders
  \/ DataBegin(<<CallerKey("caller_2")>>)
  \/ DataSteps
  \/ HealthBegin
  \/ HealthRead
  \/ HealthReturn

SpecHang == InitReliable /\ [][NextHang]_vars /\ Fairness /\ RequestFairness

\* /data (for every key list) and /health are served while the polling
\* threads of reliable devices run
NextQuery ==
  \/ \E d \in Devices : ReaderStep(d)
  \/ StartReaders
  \/ \E keys \in KeyLists : DataBegin(keys)
  \/ DataSteps
  \/ HealthBegin
  \/ HealthRead
  \/ HealthReturn

SpecQuery == InitReliable /\ [][NextQuery]_vars

\* the polling threads run while the wall clock advances
NextClock ==
  \/ \E d \in Devices : ReaderStep(d)
  \/ StartReaders
  \/ Tick

\* the first device is unreliable, the second one answers every call
InitFlakyAndReliable == InitWith([d \in Devices |-> d # DeviceOrder[1]])

SpecClock == InitFlakyAndReliable /\ [][NextClock]_vars

\* the polling threads of reliable devices are started and stopped at any
\* time, any number of times, while the wall clock advances
NextWriters ==
  \/ \E d \in Devices : ReaderStep(d)
  \/ \E d \in Devices : Stop(d)
  \/ StartReaders
  \/ Tick

SpecWriters == InitReliable /\ [][NextWriters]_vars

\* start_readers, stop and stop_readers are called at any time, in any order
NextLifecycle ==
  \/ \E d \in Devices : ReaderStep(d)
  \/ \E d \in Devices : Stop(d)
  \/ StopReaders
  \/ StartReaders

SpecLifecycle == InitReliable /\ [][NextLifecycle]_vars

\* reliable devices, one of them configured with a Tag of unsupported type
InitBadType ==
  InitCfg(bad_config, [d \in Devices |-> TRUE], [d \in Devices |-> FALSE])

NextBadType ==
  \/ \E d \in Devices : ReaderStep(d)
  \/ StartReaders

SpecBadType == InitBadType /\ [][NextBadType]_vars

\* /data (for one key) is served while the polling threads run
NextStatus ==
  \/ \E d \in Devices : ReaderStep(d)
  \/ \E d \in Devices : LinkDrop(d)
  \/ StartReaders
  \/ DataBegin(<<CallerKey("caller_2")>>)
  \/ DataSteps
  \/ StatusFormat

\* the first device is unreliable, the second one answers no call
InitFirstFlaky ==
  InitEnv([d \in Devices |-> d # DeviceOrder[1]], [d \in Devices |-> d # DeviceOrder[1]])

SpecStatus == InitFirstFlaky /\ [][NextStatus]_vars

(* ------------------------------- claims ------------------------------- *)
Names(vals) == [j \in 1..Len(vals) |-> vals[j][1]]
TagNamesUpTo(d, n) == [j \in 1..n |-> tags[d][j].name]
Upto(n) == [j \in 1..n |-> j]
CyclePcs == {"ensure", "connect", "db_read", "append", "append_locked", "sleep"}

\* C1: when the k-th tag is the first whose read or decode fails, read_tags
\* returns exactly the values of tags 1..k-1 (in declared order), has read
\* tags 1..k and no other, and leaves the manager disconnected with an error
\* message
C1_FailFastPartial ==
  \A d \in Devices :
    LET c == cyc[d]
    IN  (c.returned /\ c.failedAt > 0) =>
          /\ Names(values[d]) = TagNamesUpTo(d, c.failedAt - 1)
          /\ c.reads = Upto(c.failedAt)
          /\ ~connected[d]
          /\ last_error[d] # None

\* a cycle whose last tag (not the first) failed has returned one value less
C1_Witness ==
  \E d \in Devices :
    /\ cyc[d].returned
    /\ cyc[d].failedAt = NumTagsOf(d)
    /\ Len(values[d]) = NumTagsOf(d) - 1
    /\ Len(values[d]) >= 1

\* C4: connected becomes true only when a connection attempt returns with the
\* session established, and then last_error is cleared and the reads start;
\* a failed attempt leaves connected false with an error message and
\* read_tags returns; a read failure leaves connected false with an error
C4_ConnectedOnlyBySession ==
  [][\A d \in Devices :
       /\ (connected'[d] /\ ~connected[d]) => (pc[d] = "connect" /\ alive'[d])
       /\ (pc[d] = "connect" /\ pc'[d] # "connect") =>
            /\ connected'[d] = alive'[d]
            /\ connected'[d] =>
                 /\ last_error'[d] = None
                 /\ ~cyc'[d].returned
                 /\ pc'[d] = "db_read"
            /\ ~connected'[d] =>
                 /\ last_error'[d] # None
                 /\ cyc'[d].returned
                 /\ values'[d] = <<>>
       /\ (cyc'[d].failedAt > 0 /\ cyc[d].failedAt = 0) =>
            (~connected'[d] /\ last_error'[d] # None)
    ]_vars

\* one manager connected by the attempt of its current cycle, while the other
\* was disconnected by a read failure
C4_Witness ==
  \E d \in Devices :
    /\ connected[d]
    /\ ~cyc[d].connAtStart
    /\ cyc[d].attempts = 1
    /\ pc[d] = "db_read"
    /\ \E e \in Devices : e # d /\ ~connected[e] /\ cyc[e].failedAt > 0

\* C5: _ensure_connection called while connected with the session alive
\* makes no connection attempt, changes nothing of the manager and returns
\* true (the reads start)
C5_EnsureIdempotent ==
  [][\A d \in Devices :
       (pc[d] = "ensure" /\ connected[d] /\ alive[d] /\ pc'[d] # "ensure") =>
          /\ connected'[d]
          /\ last_error'[d] = last_error[d]
          /\ alive'[d] = alive[d]
          /\ cyc'[d].attempts = cyc[d].attempts
          /\ pc'[d] = "db_read"
    ]_vars

\* a cycle that began connected (an earlier call connected) and whose call of
\* _ensure_connection attempted nothing
C5_Witness ==
  \E d \in Devices :
    /\ cyc[d].connAtStart
    /\ cyc[d].attempts = 0
    /\ pc[d] = "db_read"
    /\ connected[d]
    /\ last_error[d] = None

\* C7: a cycle that begins disconnected makes exactly one connection attempt;
\* when it fails nothing is read, read_tags returns the empty map and nothing
\* is appended
C7_OneAttemptPerCycle ==
  \A d \in Devices :
    LET c == cyc[d]
    IN  (pc[d] \in CyclePcs /\ ~c.connAtStart) =>
          /\ c.attempts = IF pc[d] = "ensure" THEN 0 ELSE 1
          /\ c.connFailed =>
               /\ c.returned
               /\ c.reads = <<>>
               /\ values[d] = <<>>
               /\ c.appended = <<>>
               /\ pc[d] = "sleep"

\* a second consecutive cycle whose connection attempt failed
C7_Witness ==
  \E d \in Devices :
    /\ pc[d] = "sleep"
    /\ ~cyc[d].connAtStart
    /\ cyc[d].connFailed
    /\ cyc[d].attempts = 1
    /\ last_error[d] = ConnectionError

\* C6: a polling thread ends only by observing the stop signal at the loop
\* test; whatever failed in a cycle, read_tags returns to run(), which goes on
\* to append and sleep; every cycle reaches the end of its sleep, and the
\* next cycle starts then unless the stop signal is set
C6_PollingSurvivesFailures ==
  /\ [][\A d \in Devices :
          /\ (IsAlive(pc[d]) /\ ~IsAlive(pc'[d])) => (pc[d] = "check" /\ stop_event[d])
          /\ (cyc'[d].returned /\ ~cyc[d].returned) => pc'[d] \in {"append", "sleep"}
          /\ (pc[d] = "sleep" /\ pc'[d] # "sleep") => pc'[d] = "check"
          /\ (pc[d] = "check" /\ ~stop_event[d] /\ pc'[d] # "check") => pc'[d] = "ensure"
       ]_vars
  /\ \A d \in Devices : (pc[d] \in CyclePcs) ~> (pc[d] = "check")

\* a cycle started right after a cycle in which a read failed
C6_Witness ==
  \E d \in Devices :
    /\ pc[d] = "ensure"
    /\ ~connected[d]
    /\ last_error[d] = ReadError(tags[d][1].name)

KeysOf(d) == [j \in 1..NumTagsOf(d) |-> Key(d, tags[d][j].name)]

\* a completed cycle that appended a sample to every key of the device, with
\* the manager connected and no error recorded
Recovered(d) ==
  /\ pc[d] = "sleep"
  /\ connected[d]
  /\ last_error[d] = None
  /\ cyc[d].appended = KeysOf(d)

\* C8: once every connect and every read of a device succeeds (and no stop is
\* requested), the device's cycles come to completion connected, without
\* error message and with a new sample for every key, and from some cycle on
\* every cycle does
C8_Recovery ==
  \A d \in Devices :
    /\ (healthy[d] /\ IsAlive(pc[d])) ~> Recovered(d)
    /\ (healthy[d] /\ IsAlive(pc[d])) ~> [](pc[d] = "sleep" => Recovered(d))

\* the device became reliable while its manager was disconnected with an
\* error recorded, and has completed a full cycle since
C8_Witness ==
  \E d \in Devices :
    /\ healthy[d]
    /\ Recovered(d)
    /\ ~cyc[d].connAtStart
    /\ cyc[d].attempts = 1
    /\ \E e \in Devices : e # d /\ healthy[e] /\ Recovered(e)

\* the keys of a device hold the same histories in two states of the store
SameHistories(d, dat1, dat2) ==
  \A j \in 1..NumTagsOf(d) :
    LET k == Key(d, tags[d][j].name)
    IN  (k \in DOMAIN dat1) = (k \in DOMAIN dat2) /\ BufferGet(dat1, k) = BufferGet(dat2, k)

\* C9: the thread ends only at the loop test, and only with the stop signal
\* set, so a cycle in flight is completed; stop() itself changes nothing of
\* the thread or the manager; an ended thread reads and appends nothing more;
\* and a running thread whose stop signal is set ends
C9_CooperativeStop ==
  /\ [][\A d \in Devices :
          /\ (pc'[d] = "stopped" /\ pc[d] # "stopped") =>
               (pc[d] = "check" /\ stop_event[d])
          /\ (pc[d] = "check" /\ stop_event[d] /\ pc'[d] # "check") => pc'[d] = "stopped"
          /\ (stop_event'[d] # stop_event[d]) =>
               (pc'[d] = pc[d] /\ cyc'[d] = cyc[d] /\ values'[d] = values[d])
          /\ (pc[d] = "stopped") =>
               /\ pc'[d] = "stopped"
               /\ cyc'[d] = cyc[d]
               /\ connected'[d] = connected[d]
               /\ last_error'[d] = last_error[d]
               /\ SameHistories(d, data, data')
       ]_vars
  /\ \A d \in Devices : (stop_event[d] /\ IsAlive(pc[d])) ~> (pc[d] = "stopped")

\* one thread has ended after its stop signal was set in the middle of a
\* cycle that appended samples, while the other still runs
C9_Witness ==
  \E d \in Devices :
    /\ pc[d] = "stopped"
    /\ stop_event[d]
    /\ Key(d, tags[d][1].name) \in DOMAIN data
    /\ \E e \in Devices : e # d /\ IsAlive(pc[e])

\* C10: the store lock is held only inside the critical sections of append
\* and snapshot, never during connect or db_read; so while a device hangs the
\* other device (unless it hangs too) keeps completing cycles with all its
\* appends, and every request is answered
C10_DeviceIndependence ==
  /\ [](\A d \in Devices :
          /\ lock = d => pc[d] = "append_locked"
          /\ pc[d] \in {"connect", "db_read"} => lock # d)
  /\ [](lock = "request" => qpc = "copy")
  /\ \A d \in Devices : \A e \in Devices \ {d} :
       (hung[d] /\ IsAlive(pc[e])) ~>
          (hung[e] \/ (pc[e] = "sleep" /\ cyc[e].appended = KeysOf(e)))
  /\ (qpc \notin {"idle", "done"}) ~> (qpc = "done")

\* one device hangs in a network call while the other has completed a cycle
\* and a /data response has been produced
C10_Witness ==
  \E d \in Devices : \E e \in Devices \ {d} :
    /\ hung[d]
    /\ pc[d] \in {"connect", "db_read"}
    /\ pc[e] = "sleep"
    /\ cyc[e].appended = KeysOf(e)
    /\ qpc = "done"
    /\ Len(series) > 0

\* the last n elements of a sequence
LastN(q, n) == IF Len(q) <= n THEN q ELSE SubSeq(q, Len(q) - n + 1, Len(q))

\* the samples appended so far to a key
LogOf(k) == IF k \in DOMAIN wlog THEN wlog[k] ELSE <<>>

\* C2: no history is longer than maxlen; each history is the last maxlen
\* samples appended to its key, in the order of the appends, and that is what
\* snapshot returns for the key
C2_BoundedFifo ==
  /\ \A k \in DOMAIN data :
       /\ Len(data[k]) <= MaxLen
       /\ data[k] = LastN(wlog[k], MaxLen)
  /\ \A k \in AllKeys : k \notin DOMAIN data => wlog[k] = <<>>
  /\ qpc = "copy" =>
       \A j \in 1..Len(series) :
         series[j][2].items = LastN(LogOf(series[j][1]), MaxLen)

\* maxlen + MaxExtra samples were appended to a key, the oldest are gone, and
\* snapshot has returned the last maxlen of them
C2_Witness ==
  /\ qpc = "copy"
  /\ qi > Len(selected)
  /\ \E j \in 1..Len(series) :
       LET k == series[j][1]
       IN  /\ k \in DOMAIN wlog
           /\ Len(wlog[k]) = MaxLen + MaxExtra
           /\ Len(series[j][2].items) = MaxLen
           /\ series[j][2].items # SubSeq(wlog[k], 1, MaxLen)
           /\ series[j][2].items = SubSeq(wlog[k], MaxExtra + 1, MaxLen + MaxExtra)

\* C3: every sequence returned by snapshot is, and stays, the history its key
\* had when snapshot took the lock, whatever is appended afterwards; all keys
\* of one call are copied from that same state of the store
C3_SnapshotIsolated ==
  /\ \A j \in 1..Len(series) :
       View(series[j][2]) = seen[series[j][1]]
  /\ qpc = "copy" =>
       (lock = "request" /\ \A k \in DOMAIN seen : BufferGet(data, k) = seen[k])

\* a response with two keys is held by the client while a key in it has
\* received a later append
C3_Witness ==
  /\ qpc = "done"
  /\ Len(series) = 2
  /\ \E j \in 1..Len(series) :
       BufferGet(data, series[j][1]) # seen[series[j][1]]

\* the pairs the manager of m has held since the /data call in progress
\* began
HeldInCall(m) == held[m] \cup {StateOf(m)}

\* C11: every text that /data renders for a device is the text of a
\* <<connected, last_error>> pair that the device's manager held at one
\* instant between the arrival of the call and the rendering
C11_StatusNotTorn ==
  [][\A j \in 1..Len(status_parts') :
       j > Len(status_parts) =>
         \E p \in HeldInCall(status_parts'[j][1]) :
           status_parts'[j][2] = StatusText(p[1], p[2])
    ]_vars

\* tag j of device d has a supported type and is declared after a tag of
\* unsupported type
AfterUnsupported(d, j) ==
  /\ tags[d][j].data_type \in SupportedTypes
  /\ \E i \in 1..(j - 1) : tags[d][i].data_type \notin SupportedTypes

\* C12: a tag of unsupported type does not end the polling thread, and in a
\* cycle of a connected, reliable device every tag declared after it is read
\* and its sample appended
C12_UnsupportedTypeLocal ==
  \A d \in Devices :
    /\ pc[d] # "crashed"
    /\ (pc[d] = "sleep" /\ healthy[d] /\ ~cyc[d].connFailed) =>
         \A j \in 1..NumTagsOf(d) :
           AfterUnsupported(d, j) =>
             /\ \E r \in 1..Len(cyc[d].reads) : cyc[d].reads[r] = j
             /\ \E a \in 1..Len(cyc[d].appended) :
                  cyc[d].appended[a] = Key(d, tags[d][j].name)

\* the keys of a dict built in insertion order, the elements of a list
DictKeys(dict) == {dict[j][1] : j \in 1..Len(dict)}
Elements(list) == {list[j] : j \in 1..Len(list)}

\* C13: snapshot answers every key list: while it holds the lock each key
\* copied so far maps to the key's history, and to the empty sequence when
\* the key was never appended to; what it returns has exactly the requested
\* keys
C13_SnapshotTotal ==
  /\ qpc = "copy" =>
       /\ DictKeys(series) = {selected[i] : i \in 1..(qi - 1)}
       /\ \A j \in 1..Len(series) :
            LET k == series[j][1]
            IN  series[j][2].items = IF k \in DOMAIN data THEN data[k] ELSE <<>>
  /\ qpc \in {"status", "status_error", "status_format", "done"} =>
       DictKeys(series) = Elements(selected)

\* two keys were requested when only the first had history: the response has
\* both, the second one empty
C13_Witness ==
  /\ qpc = "done"
  /\ Len(selected) = 2
  /\ Len(series) = 2
  /\ series[1][1] = selected[1] /\ series[1][2].items # <<>>
  /\ series[2][1] = selected[2] /\ series[2][2].items = <<>>
  /\ seen[selected[2]] = <<>>

\* the text of a manager state, with given words for connected and for
\* disconnected without error
TextOf(p, yes, no) == IF p[1] THEN yes ELSE IF p[2] # None THEN p[2] ELSE no

\* a part appended to status_parts for a device whose manager has kept one
\* state since the call began is the device's name with the text of that state
RenderedAs(yes, no) ==
  \A j \in 1..Len(status_parts') :
    (j > Len(status_parts) /\ j <= Len(DeviceOrder) /\ held[DeviceOrder[j]] = {}) =>
       status_parts'[j] = <<DeviceOrder[j], TextOf(StateOf(DeviceOrder[j]), yes, no)>>

\* the response of /data lists every device once, in configuration order,
\* and its status is the parts with " | " between neighbours
ListedAndJoined ==
  (qpc = "done" /\ plcs = <<>>) =>
     /\ Len(status_parts) = Len(DeviceOrder)
     /\ \A j \in 1..Len(status_parts) : status_parts[j][1] = DeviceOrder[j]
     /\ Len(status) = 2 * Len(status_parts) - 1
     /\ \A j \in 1..Len(status_parts) : status[2 * j - 1] = status_parts[j]
     /\ \A j \in 1..(Len(status_parts) - 1) : status[2 * j] = " | "

\* C14 as stated: the summary lists every device in configuration order,
\* "<name>: connected" for a connected manager, else "<name>: <last error>"
\* when an error is recorded, else "<name>: disconnected", joined with " | "
C14_SummaryAsStated ==
  /\ [][RenderedAs(<<"connected">>, <<"disconnected">>)]_vars
  /\ []ListedAndJoined

\* C14 (amended): the same with the words the program uses, "verbunden" and
\* "nicht verbunden", for a manager that keeps its state during the call
C14_StatusSummary ==
  /\ [][RenderedAs(<<"verbunden">>, <<"nicht verbunden">>)]_vars
  /\ []ListedAndJoined

\* a response for a connected first device and a second device that never
\* connected and has no error recorded
C14_Witness ==
  /\ qpc = "done"
  /\ connected[DeviceOrder[1]]
  /\ status = << <<"plc_1500", <<"verbunden">>>>, " | ",
                 <<"plc_et200sp", <<"nicht verbunden">>>> >>

\* C15: no step of the /data or /health handler changes the connected flag
\* or the error message of a manager, a stored history, or the set of keys
\* of the store, whatever keys are requested
C15_QueryReadOnly ==
  [][(reqVars' # reqVars) =>
       /\ connected' = connected
       /\ last_error' = last_error
       /\ DOMAIN data' = DOMAIN data
       /\ \A k \in DOMAIN data : data'[k] = data[k]
    ]_vars

\* /data has answered a request that names a key never appended to, while a
\* device is connected and has history: the key is still not in the store
C15_Witness ==
  /\ qpc = "done"
  /\ \E j \in 1..Len(selected) : selected[j] = UnknownKey
  /\ UnknownKey \notin DOMAIN data
  /\ DOMAIN data # {}
  /\ \E d \in Devices : connected[d]

\* C16: in a cycle the tags are read in declared order; the values returned
\* by read_tags are appended once each, in that order, under the key made of
\* the device name and the tag name; every sample appended in the cycle
\* carries the time captured at the start of the cycle, before any read
C16_CycleOrderAndStamp ==
  /\ [](\A d \in Devices :
          LET c == cyc[d]
          IN  /\ c.reads = Upto(Len(c.reads))
              /\ Len(c.appended) <= Len(values[d])
              /\ \A j \in 1..Len(c.appended) : c.appended[j] = <<d, values[d][j][1]>>
              /\ c.returned => Names(values[d]) = TagNamesUpTo(d, Len(values[d]))
              /\ pc[d] = "sleep" => Len(c.appended) = Len(values[d]))
  /\ [][\A d \in Devices :
          /\ (pc[d] = "check" /\ pc'[d] = "ensure") =>
               (start_time'[d] = now /\ cyc'[d].reads = <<>>)
          /\ (pc[d] \in CyclePcs) => start_time'[d] = start_time[d]
          /\ Len(cyc'[d].appended) > Len(cyc[d].appended) =>
               LET n == Len(cyc'[d].appended)
                   k == cyc'[d].appended[n]
               IN  /\ n = Len(cyc[d].appended) + 1
                   /\ k \in DOMAIN data'
                   /\ data'[k][Len(data'[k])] = <<start_time[d], values[d][n][2]>>
       ]_vars

\* a cycle that started at time 1 has appended a sample per tag, the last one
\* at time 2, and both samples carry time 1
C16_Witness ==
  \E d \in Devices :
    /\ pc[d] = "sleep"
    /\ Len(cyc[d].appended) = NumTagsOf(d)
    /\ NumTagsOf(d) >= 2
    /\ start_time[d] = 1
    /\ now = 2
    /\ \A j \in 1..NumTagsOf(d) :
         LET h == data[Key(d, tags[d][j].name)]
         IN  h[Len(h)][1] = 1

\* the timestamps of a history never decrease from one sample to the next
NonDecreasing(h) == \A i \in 1..Len(h) : \A j \in i..Len(h) : h[i][1] <= h[j][1]

\* C17: a history is changed (and a key created) only by the polling thread
\* of the device named in the key, inside its append; the thread of a device
\* is started at most once, so no second polling thread of the device ever
\* runs; and the timestamps of every history are non-decreasing
C17_SingleWriterMonotonic ==
  /\ [](\A k \in DOMAIN data : NonDecreasing(data[k]))
  /\ [][/\ \A k \in DOMAIN data' :
            (k \notin DOMAIN data \/ data'[k] # data[k]) =>
               /\ k[1] \in Devices
               /\ pc[k[1]] = "append_locked"
               /\ lock = k[1]
               /\ cyc'[k[1]].appended = Append(cyc[k[1]].appended, k)
               /\ \A e \in Devices \ {k[1]} : cyc'[e] = cyc[e] /\ pc'[e] = pc[e]
        /\ \A d \in Devices :
             /\ (IsAlive(pc'[d]) /\ ~IsAlive(pc[d])) => pc[d] = "idle"
             /\ pc'[d] = "idle" => pc[d] = "idle"
       ]_vars

\* both devices have written histories, one of them with two samples of
\* different times, and a thread has ended
C17_Witness ==
  /\ \A d \in Devices : \E k \in DOMAIN data : k[1] = d
  /\ \E k \in DOMAIN data : Len(data[k]) >= 2 /\ data[k][1][1] < data[k][2][1]
  /\ \E d \in Devices : pc[d] = "stopped"

\* C18: a thread goes from never started to running to ended, and in no
\* other direction: once ended it stays ended and runs no cycle, once
\* started it is never again unstarted; a thread whose stop signal is set
\* while it has not been started never runs a cycle
C18_Lifecycle ==
  /\ [][\A d \in Devices :
          /\ pc[d] = "idle" => pc'[d] \in {"idle", "check"}
          /\ pc[d] = "stopped" => (pc'[d] = "stopped" /\ cyc'[d] = cyc[d])
          /\ pc[d] # "idle" => pc'[d] # "idle"
          /\ pc'[d] = "stopped" => pc[d] \in {"check", "stopped"}
       ]_vars
  /\ \A d \in Devices :
       []((pc[d] = "idle" /\ stop_event[d]) => [](pc[d] \notin CyclePcs))

\* a thread that was stopped before it was started has ended without ever
\* entering a loop, and the other thread has ended after writing samples
C18_Witness ==
  \E d \in Devices : \E e \in Devices \ {d} :
    /\ pc[d] = "stopped"
    /\ idx[d] = 0
    /\ \A k \in DOMAIN data : k[1] # d
    /\ pc[e] = "stopped"
    /\ \E k \in DOMAIN data : k[1] = e

\* the thread of d has completed a cycle and is between two cycles (idx is
\* assigned in every cycle, and never before the first one)
AtCycleBoundary(d) == pc[d] = "sleep" \/ (pc[d] = "check" /\ idx[d] > 0)

\* C19: between two cycles a manager is either connected without error
\* message or disconnected with one, so its status text is not the plain
\* "nicht verbunden"
C19_BoundaryStates ==
  \A d \in Devices :
    AtCycleBoundary(d) =>
       /\ connected[d] => last_error[d] = None
       /\ ~connected[d] => (last_error[d] # None /\ Len(last_error[d]) > 0)
       /\ StatusText(connected[d], last_error[d]) # NichtVerbunden

\* one device is between cycles disconnected with the message of a refused
\* connection, the other one is between cycles connected
C19_Witness ==
  \E d \in Devices : \E e \in Devices \ {d} :
    /\ pc[d] = "check" /\ idx[d] > 0
    /\ ~connected[d] /\ last_error[d] = UnknownIssue
    /\ pc[e] = "sleep"
    /\ connected[e] /\ last_error[e] = None

(* C20: for two signals of one device with distinct names, the one declared
   earlier has in every reachable state, the states between the appends of
   one cycle included, received at least as many samples as the one declared
   later, and its stored history is at least as long. *)
HistoryLen(d, j) == Len(BufferGet(data, Key(d, tags[d][j].name)))
C20_EarlierNeverBehind ==
  \A d \in Devices : \A i \in 1..NumTagsOf(d) : \A j \in 1..NumTagsOf(d) :
    (i < j /\ tags[d][i].name # tags[d][j].name) =>
       /\ \A m \in i..(j - 1) : lead[d][m] >= 0
       /\ HistoryLen(d, i) >= HistoryLen(d, j)

\* a cycle of a device has ended in which only the first signal was read and
\* appended, after a cycle in which the second one was appended too
C20_Witness ==
  \E d \in Devices :
    /\ pc[d] = "sleep"
    /\ cyc[d].appended = <<Key(d, tags[d][1].name)>>
    /\ lead[d][1] = MaxLead
    /\ HistoryLen(d, 2) > 0
    /\ HistoryLen(d, 1) > HistoryLen(d, 2)

====
